---------------------------- MODULE Spec2Model ----------------------------
(***************************************************************************)
(* Model of watch.py: the BrokenDateDial value type (a watch whose         *)
(* day-of-week and day-of-month indicators advance together), the          *)
(* bezouts_identity helper and the calendar scan                           *)
(* count_broken_dial_correct.                                              *)
(*                                                                         *)
(* Three specifications share the variables:                               *)
(*   DialSpec   - a watch being turned and measured (__add__, __sub__),    *)
(*   BezoutSpec - calls of bezouts_identity on arbitrary modulus pairs,    *)
(*   ScanSpec   - count_broken_dial_correct walking a calendar year.       *)
(***************************************************************************)
EXTENDS Integers, FiniteSets, Sequences, TLC

VARIABLES
    pc,       \* position of the caller / of the running function
    watch,    \* DialSpec: the BrokenDateDial currently shown
    before,   \* DialSpec: the BrokenDateDial the last leg started from
    arg,      \* DialSpec: the integer operand n of the last __add__ / __sub__
    target,   \* DialSpec: the BrokenDateDial the user wants to reach
    clicks,   \* DialSpec: the last result of clicks_from
    bzargs,   \* BezoutSpec: the pair (n1, n2) passed to bezouts_identity
    bz,       \* BezoutSpec: the outcome of the call
    year,     \* ScanSpec: parameter `year`
    dial,     \* ScanSpec: parameter `dial`
    d,        \* ScanSpec: local `d`, a datetime.date
    count,    \* ScanSpec: local `count`
    err,      \* ScanSpec: the exception that ended the call, or "none"
    iters,    \* ScanSpec (history): loop iterations begun
    hits,     \* ScanSpec (history): the <<month, day>> of every counted date
    feb29     \* ScanSpec (history): iterations whose d was a February 29

vars == <<pc, watch, before, arg, target, clicks, bzargs, bz,
          year, dial, d, count, err, iters, hits, feb29>>

dialVars == <<watch, before, arg, target, clicks>>
bezoutVars == <<bzargs, bz>>
scanVars == <<year, dial, d, count, err, iters, hits, feb29>>

---------------------------------------------------------------------------
(* Bounds of the model.                                                    *)

\* Integer operands of __add__ / __sub__ range over -MaxClicks..MaxClicks.
MaxClicks == 250

\* bezouts_identity is called on every pair of 0..MaxModulus.
MaxModulus == 33

\* The scan is run on DefaultYear..DefaultYear+YearSpan (and fixed years).
YearSpan == 2

---------------------------------------------------------------------------
(* BrokenDateDial                                                          *)

Days == 0..6
Dates == 1..31

\* class BrokenDateDial(NamedTuple): day, date
BrokenDateDial == [day : Days, date : Dates]

\* Python's % with a positive right operand: the floored remainder.
PyMod(a, b) == a % b

\* C's truncating remainder, the sign of the left operand.
TruncMod(a, b) == IF a >= 0 THEN a % b ELSE -((-a) % b)

\* __add__ as written with a truncating remainder.
AddTruncating(self, n) ==
    [day  |-> TruncMod(self.day + n, 7),
     date |-> TruncMod(self.date - 1 + n, 31) + 1]

\* __add__ without the 1-based offset of the date.
AddZeroBased(self, n) ==
    [day  |-> PyMod(self.day + n, 7),
     date |-> PyMod(self.date + n, 31)]

\* __add__: turn the dial forwards n clicks.
Add(self, n) ==
    [day  |-> PyMod(self.day + n, 7),
     date |-> PyMod(self.date - 1 + n, 31) + 1]

\* _sub__integer: turn the dial backwards n clicks.
SubInteger(self, n) == Add(self, -n)

\* bezouts_identity accepting the pair in either order.
BezoutsIdentityEitherOrder(n1, n2) ==
    IF (n1 = 7 /\ n2 = 31) \/ (n1 = 31 /\ n2 = 7)
    THEN [raised |-> FALSE, m |-> <<9, -2>>]
    ELSE [raised |-> TRUE,  m |-> <<0, 0>>]

\* bezouts_identity: (9, -2) for (7, 31), NotImplementedError otherwise.
BezoutsIdentity(n1, n2) ==
    IF n1 = 7 /\ n2 = 31
    THEN [raised |-> FALSE, m |-> <<9, -2>>]
    ELSE [raised |-> TRUE,  m |-> <<0, 0>>]

\* The body of clicks_from for given coefficient pairing.
Combine(day_delta, date_delta, n1, n2, m1, m2) ==
    PyMod(day_delta * m2 * n2 + date_delta * m1 * n1, n1 * n2)

\* clicks_from with the two Bezout terms paired with the wrong deltas.
ClicksFromSwapped(self, other) ==
    LET day_delta  == PyMod(self.day - other.day, 7)
        date_delta == PyMod(self.date - other.date, 31)
        b == BezoutsIdentity(7, 31)
    IN  IF b.raised
        THEN [raised |-> TRUE, value |-> 0]
        ELSE [raised |-> FALSE,
              value  |-> PyMod(day_delta * b.m[1] * 7
                               + date_delta * b.m[2] * 31, 7 * 31)]

\* clicks_from measuring from self to other.
ClicksFromReversed(self, other) ==
    LET day_delta  == PyMod(other.day - self.day, 7)
        date_delta == PyMod(other.date - self.date, 31)
        b == BezoutsIdentity(7, 31)
    IN  IF b.raised
        THEN [raised |-> TRUE, value |-> 0]
        ELSE [raised |-> FALSE,
              value  |-> Combine(day_delta, date_delta, 7, 31, b.m[1], b.m[2])]

\* clicks_from normalised into 1..217 instead of 0..216.
ClicksFromOneBased(self, other) ==
    LET day_delta  == PyMod(self.day - other.day, 7)
        date_delta == PyMod(self.date - other.date, 31)
        b == BezoutsIdentity(7, 31)
    IN  IF b.raised
        THEN [raised |-> TRUE, value |-> 0]
        ELSE [raised |-> FALSE,
              value  |-> PyMod(Combine(day_delta, date_delta, 7, 31,
                                       b.m[1], b.m[2]) - 1, 7 * 31) + 1]

\* clicks_from: how many clicks lead from `other` to `self`.
ClicksFrom(self, other) ==
    LET day_delta  == PyMod(self.day - other.day, 7)
        date_delta == PyMod(self.date - other.date, 31)
        b == BezoutsIdentity(7, 31)
    IN  IF b.raised
        THEN [raised |-> TRUE, value |-> 0]
        ELSE [raised |-> FALSE,
              value  |-> Combine(day_delta, date_delta, 7, 31, b.m[1], b.m[2])]

\* The period of the dial, n1 * n2 in clicks_from.
Period == 7 * 31

---------------------------------------------------------------------------
(* Values of the variables a specification does not use.                   *)

NoDial == [day |-> 0, date |-> 1]
NoDate == [year |-> 0, month |-> 0, day |-> 0]

DialIdle ==
    /\ watch = NoDial /\ before = NoDial /\ arg = 0
    /\ target = NoDial /\ clicks = 0

BezoutIdle == bzargs = <<0, 0>> /\ bz = [raised |-> FALSE, m |-> <<0, 0>>]

ScanIdle ==
    /\ year = 0 /\ dial = NoDial /\ d = NoDate /\ count = 0
    /\ err = "none" /\ iters = 0 /\ hits = {} /\ feb29 = 0

---------------------------------------------------------------------------
(* DialSpec: a watch is constructed, then turned by integers, turned back, *)
(* measured against a target and turned by the measured distance.          *)

DialInit ==
    /\ pc = "ready"
    /\ watch \in BrokenDateDial
    /\ before = watch
    /\ arg = 0
    /\ target = watch
    /\ clicks = 0
    /\ BezoutIdle /\ ScanIdle

\* watch + n
AddInt ==
    /\ pc = "ready"
    /\ \E n \in -MaxClicks..MaxClicks :
          /\ watch' = Add(watch, n)
          /\ arg' = n
    /\ before' = watch
    /\ pc' = "added"
    /\ UNCHANGED <<target, clicks, bezoutVars, scanVars>>

\* watch - n, dispatched to _sub__integer
SubInt ==
    /\ pc = "ready"
    /\ \E n \in -MaxClicks..MaxClicks :
          /\ watch' = SubInteger(watch, n)
          /\ arg' = n
    /\ before' = watch
    /\ pc' = "subbed"
    /\ UNCHANGED <<target, clicks, bezoutVars, scanVars>>

\* after watch + n: + (217 - n % 217) % 217, the rest of a full turn
AddBack ==
    /\ pc = "added"
    /\ arg \in 0..(Period - 1)
    /\ watch' = Add(watch, PyMod(Period - PyMod(arg, Period), Period))
    /\ pc' = "restored"
    /\ UNCHANGED <<before, arg, target, clicks, bezoutVars, scanVars>>

\* t - watch, dispatched to clicks_from
Measure ==
    /\ pc = "ready"
    /\ \E t \in BrokenDateDial :
          LET r == ClicksFrom(t, watch)
          IN  /\ target' = t
              /\ clicks' = r.value
              /\ pc' = IF r.raised THEN "raised" ELSE "measured"
    /\ UNCHANGED <<watch, before, arg, bezoutVars, scanVars>>

\* watch + (t - watch)
Turn ==
    /\ pc = "measured"
    /\ before' = watch
    /\ watch' = Add(watch, clicks)
    /\ pc' = "turned"
    /\ UNCHANGED <<arg, target, clicks, bezoutVars, scanVars>>

\* The value returned by the last operation becomes the receiver of the next.
Rebind ==
    /\ pc \in {"added", "subbed", "restored", "turned"}
    /\ pc' = "ready"
    /\ before' = watch
    /\ arg' = 0
    /\ target' = watch
    /\ clicks' = 0
    /\ UNCHANGED <<watch, bezoutVars, scanVars>>

DialNext ==
    \/ AddInt
    \/ SubInt
    \/ AddBack
    \/ Measure
    \/ Turn
    \/ Rebind

DialSpec == DialInit /\ [][DialNext]_vars

---------------------------------------------------------------------------
(* BezoutSpec: bezouts_identity called on a pair of moduli.                *)

BezoutInit ==
    /\ pc = "idle"
    /\ BezoutIdle /\ DialIdle /\ ScanIdle

BezoutCall ==
    /\ pc = "idle"
    /\ \E n1, n2 \in 0..MaxModulus :
          /\ bzargs' = <<n1, n2>>
          /\ bz' = BezoutsIdentity(n1, n2)
    /\ pc' = IF bz'.raised THEN "raised" ELSE "returned"
    /\ UNCHANGED <<dialVars, scanVars>>

BezoutNext == BezoutCall

BezoutSpec == BezoutInit /\ [][BezoutNext]_vars

---------------------------------------------------------------------------
(* datetime.date as count_broken_dial_correct uses it: the proleptic       *)
(* Gregorian calendar of years MINYEAR..MAXYEAR.                           *)

MINYEAR == 1
MAXYEAR == 9999

\* datetime._is_leap
IsLeap(y) == y % 4 = 0 /\ (y % 100 # 0 \/ y % 400 = 0)

\* datetime._days_in_month
DaysInMonth(y, m) ==
    IF m = 2 THEN (IF IsLeap(y) THEN 29 ELSE 28)
    ELSE IF m \in {4, 6, 9, 11} THEN 30 ELSE 31

\* datetime._days_before_year
DaysBeforeYear(y) ==
    (y - 1) * 365 + ((y - 1) \div 4) - ((y - 1) \div 100) + ((y - 1) \div 400)

\* datetime._days_before_month: the table _DAYS_BEFORE_MONTH, plus the leap day.
DaysBeforeMonth(y, m) ==
    <<0, 31, 59, 90, 120, 151, 181, 212, 243, 273, 304, 334>>[m]
        + (IF m > 2 /\ IsLeap(y) THEN 1 ELSE 0)

\* date.toordinal: January 1 of year 1 is day 1.
ToOrdinal(dt) == DaysBeforeYear(dt.year) + DaysBeforeMonth(dt.year, dt.month) + dt.day

\* date.isoweekday: Monday = 1 ... Sunday = 7.
IsoWeekday(dt) == LET w == ToOrdinal(dt) % 7 IN IF w = 0 THEN 7 ELSE w

\* datetime.date(year, 1, 1): ValueError outside MINYEAR..MAXYEAR.
DateOfJan1(y) ==
    IF y \in MINYEAR..MAXYEAR
    THEN [raised |-> FALSE, date |-> [year |-> y, month |-> 1, day |-> 1]]
    ELSE [raised |-> TRUE,  date |-> NoDate]

\* d + datetime.timedelta(1): OverflowError past December 31 of MAXYEAR.
PlusOneDay(dt) ==
    IF dt.day < DaysInMonth(dt.year, dt.month)
    THEN [raised |-> FALSE, date |-> [dt EXCEPT !.day = dt.day + 1]]
    ELSE IF dt.month < 12
    THEN [raised |-> FALSE,
          date |-> [year |-> dt.year, month |-> dt.month + 1, day |-> 1]]
    ELSE IF dt.year < MAXYEAR
    THEN [raised |-> FALSE,
          date |-> [year |-> dt.year + 1, month |-> 1, day |-> 1]]
    ELSE [raised |-> TRUE, date |-> dt]

\* fromdate with Monday = 0 (date.weekday instead of isoweekday % 7).
FromDateMondayZero(dt) == [day |-> IsoWeekday(dt) - 1, date |-> dt.day]

\* BrokenDateDial.fromdate
FromDate(dt) == [day |-> PyMod(IsoWeekday(dt), 7), date |-> dt.day]

---------------------------------------------------------------------------
(* ScanSpec: count_broken_dial_correct(dial, year).                        *)

\* The default of the parameter `year`.
DefaultYear == 2018

Years ==
    {MINYEAR - 1, MINYEAR, 1900, 2000, MAXYEAR, MAXYEAR + 1}
        \cup (DefaultYear..(DefaultYear + YearSpan))

ScanInit ==
    /\ pc = "idle"
    /\ ScanIdle /\ DialIdle /\ BezoutIdle

\* The call up to the loop: count = 0, d = datetime.date(year, 1, 1).
ScanCall ==
    /\ pc = "idle"
    /\ \E t \in BrokenDateDial, y \in Years :
          LET first == DateOfJan1(y)
          IN  /\ dial' = t
              /\ year' = y
              /\ d' = first.date
              /\ pc' = IF first.raised THEN "raised" ELSE "loop"
              /\ err' = IF first.raised THEN "ValueError" ELSE "none"
    /\ count' = 0
    /\ UNCHANGED <<iters, hits, feb29, dialVars, bezoutVars>>

\* One iteration of the while loop: compare, step one day, test the year.
ScanIterate ==
    /\ pc = "loop"
    /\ LET match == FromDate(d) = dial
           next  == PlusOneDay(d)
       IN  /\ count' = IF match THEN count + 1 ELSE count
           /\ hits' = IF match THEN hits \cup {<<d.month, d.day>>} ELSE hits
           /\ d' = next.date
           /\ err' = IF next.raised THEN "OverflowError" ELSE "none"
           /\ pc' = IF next.raised THEN "raised"
                    ELSE IF next.date.year # year THEN "returned"
                    ELSE "loop"
    /\ iters' = iters + 1
    /\ feb29' = IF d.month = 2 /\ d.day = 29 THEN feb29 + 1 ELSE feb29
    /\ UNCHANGED <<dial, year, dialVars, bezoutVars>>

ScanNext ==
    \/ ScanCall
    \/ ScanIterate

ScanSpec == ScanInit /\ [][ScanNext]_vars

---------------------------------------------------------------------------
(* Arithmetic and calendar facts stated without the model's operators, for *)
(* use in the properties below.                                            *)

\* a and b differ by a multiple of m.
Congruent(a, b, m) == (a - b) = m * ((a - b) \div m)

\* The Gregorian leap-year rule.
LeapYear(y) ==
    \/ Congruent(y, 0, 4) /\ ~Congruent(y, 0, 100)
    \/ Congruent(y, 0, 400)

YearLength(y) == IF LeapYear(y) THEN 366 ELSE 365

MonthLength(y, m) ==
    <<31, IF LeapYear(y) THEN 29 ELSE 28, 31, 30, 31, 30,
      31, 31, 30, 31, 30, 31>>[m]

\* Day of the week, Sunday = 0 ... Saturday = 6 (Sakamoto's method).
Weekday(y, m, dd) ==
    LET yy == IF m < 3 THEN y - 1 ELSE y
        t  == <<0, 3, 2, 5, 0, 3, 5, 1, 4, 6, 2, 4>>[m]
    IN  (yy + (yy \div 4) - (yy \div 100) + (yy \div 400) + t + dd) % 7

\* The dates <<month, day>> of year y on which dial t is calendar-correct.
CalendarMatches(t, y) ==
    {md \in (1..12) \X (1..31) :
        /\ md[2] <= MonthLength(y, md[1])
        /\ md[2] = t.date
        /\ Weekday(y, md[1], md[2]) = t.day}

ValidYear(y) == y \in MINYEAR..MAXYEAR

Ended == pc \in {"returned", "raised"}

---------------------------------------------------------------------------
(* Properties of DialSpec.                                                 *)

\* C1: the click distance from the watch to any target lies in 0..216, is
\* the only number of forward clicks in 0..216 that leads from the watch to
\* the target, and turning the watch by it shows the target.
C1_ClickDistance ==
    /\ pc = "measured" =>
         /\ clicks \in 0..(Period - 1)
         /\ Add(watch, clicks) = target
         /\ \A j \in 0..(Period - 1) : Add(watch, j) = target => j = clicks
    /\ pc = "turned" => watch = target /\ clicks \in 0..(Period - 1)

C1_Witness ==
    /\ pc = "turned"
    /\ before = [day |-> 0, date |-> 3]
    /\ target = [day |-> 3, date |-> 31]
    /\ clicks = 59
    /\ watch = target

\* C2: every dial produced by + n or - n, for n negative, zero or positive,
\* has day in 0..6 congruent to day + n modulo 7 and date in 1..31 with
\* date - 1 congruent to date - 1 + n modulo 31 (- n: with -n for n); no
\* sequence of these operations leaves the ranges.
C2_AdvanceInRange ==
    /\ watch.day \in Days /\ watch.date \in Dates
    /\ pc = "added" =>
         /\ Congruent(watch.day, before.day + arg, 7)
         /\ Congruent(watch.date - 1, before.date - 1 + arg, 31)
    /\ pc = "subbed" =>
         /\ Congruent(watch.day, before.day - arg, 7)
         /\ Congruent(watch.date - 1, before.date - 1 - arg, 31)

C2_Witness ==
    /\ pc = "added"
    /\ arg = -100
    /\ before = [day |-> 0, date |-> 3]
    /\ watch = [day |-> 5, date |-> 27]

\* C3: a dial advanced by n in 0..216 and then by (217 - n) mod 217 equals
\* the dial it started from, and so does a dial advanced by 217.
C3_RoundTrip ==
    /\ pc = "restored" => arg \in 0..(Period - 1) /\ watch = before
    /\ pc = "added" /\ arg = Period => watch = before

C3_Witness ==
    /\ pc = "restored"
    /\ arg = 216
    /\ before = [day |-> 6, date |-> 31]
    /\ watch = before

\* C4: for the watch a, the measured target b and every dial c, the distance
\* from a to b plus the distance from b to c is congruent modulo 217 to the
\* distance from a to c.
C4_Additive ==
    pc = "measured" =>
        \A c \in BrokenDateDial :
            Congruent(clicks + ClicksFrom(c, target).value,
                      ClicksFrom(c, watch).value, Period)

\* The two legs sum past 216: 200 + 117 is congruent to 100.
C4_Witness ==
    /\ pc = "measured"
    /\ watch = [day |-> 0, date |-> 1]
    /\ clicks = 200
    /\ ClicksFrom(Add(watch, 100), target).value = 117
    /\ ClicksFrom(Add(watch, 100), watch).value = 100

\* C10: the click distance from a dial to itself is 0.
C10_SelfDistance == pc = "measured" /\ target = watch => clicks = 0

C10_Witness ==
    /\ pc = "measured"
    /\ watch = [day |-> 3, date |-> 17]
    /\ target = watch
    /\ clicks = 0

---------------------------------------------------------------------------
(* Properties of BezoutSpec.                                               *)

\* C5: bezouts_identity raises for every pair other than (7, 31) and returns
\* only for (7, 31), with coefficients (9, -2) satisfying 9*7 + (-2)*31 = 1.
C5_UnsupportedModuli ==
    Ended =>
        /\ (pc = "raised") <=> (bzargs # <<7, 31>>)
        /\ bz.raised <=> (pc = "raised")
        /\ pc = "returned" =>
             /\ bz.m = <<9, -2>>
             /\ bz.m[1] * bzargs[1] + bz.m[2] * bzargs[2] = 1

C5_Witness == pc = "raised" /\ bzargs = <<5, 12>> /\ bz.raised

---------------------------------------------------------------------------
(* Properties of ScanSpec.                                                 *)

\* C6: for every dial and every valid year the call returns the number of
\* dates of the year whose weekday (Sunday = 0) and day of month are the
\* dial's.
C6_CountMatches ==
    ValidYear(year) /\ Ended =>
        /\ pc = "returned"
        /\ count = Cardinality(CalendarMatches(dial, year))

\* What the scan does compute: whenever it returns, the count is right.
CountRightWhenReturned ==
    pc = "returned" =>
        /\ hits = CalendarMatches(dial, year)
        /\ count = Cardinality(hits)

\* C7: February 29 is visited at most once and only in a leap year, where it
\* is counted exactly when it equals the dial; a year that is not a leap
\* year counts no February date for a dial showing 29.
C7_LeapDay ==
    /\ feb29 <= 1
    /\ count = Cardinality(hits)
    /\ feb29 = 1 => LeapYear(year)
    /\ <<2, 29>> \in hits => LeapYear(year) /\ feb29 = 1
    /\ ValidYear(year) /\ Ended /\ LeapYear(year) =>
         /\ feb29 = 1
         /\ <<2, 29>> \in hits
              <=> dial = [day |-> Weekday(year, 2, 29), date |-> 29]
    /\ ValidYear(year) /\ Ended /\ ~LeapYear(year) => feb29 = 0
    /\ ~LeapYear(year) /\ dial.date = 29 => \A h \in hits : h[1] # 2

C7_Witness ==
    /\ pc = "returned"
    /\ year = 2020
    /\ dial = [day |-> 6, date |-> 29]
    /\ feb29 = 1
    /\ <<2, 29>> \in hits

\* C8: the loop starts at January 1, steps a day at a time, never runs more
\* than 366 iterations, and ends only by reaching the first date of another
\* year, after 365 iterations (366 in a leap year).
C8_StopsAtRollover ==
    /\ iters <= 366
    /\ pc = "loop" =>
         /\ d.year = year
         /\ iters = ToOrdinal(d) - ToOrdinal([year |-> year, month |-> 1, day |-> 1])
    /\ ValidYear(year) /\ Ended =>
         /\ pc = "returned"
         /\ d = [year |-> year + 1, month |-> 1, day |-> 1]
         /\ iters = YearLength(year)

\* What the scan does guarantee: it ends within YearLength(year) iterations.
IterationsBounded ==
    /\ iters <= 366
    /\ ValidYear(year) /\ Ended => iters = YearLength(year)
    /\ pc = "returned" => d = [year |-> year + 1, month |-> 1, day |-> 1]

\* C9: for every year datetime.date can construct, the call raises nothing.
C9_NoErrorForValidYear == ValidYear(year) => pc # "raised"

\* The only years that raise: outside MINYEAR..MAXYEAR, and MAXYEAR itself.
RaisesOnlyAtLimits ==
    pc = "raised" =>
        \/ ~ValidYear(year) /\ err = "ValueError"
        \/ year = MAXYEAR /\ err = "OverflowError"
               /\ d = [year |-> MAXYEAR, month |-> 12, day |-> 31]

===========================================================================
